---- MODULE Spec2Model ----
(***************************************************************************)
(* A model of the Suno proxy (src/main.py): the key resolver, the five     *)
(* relay handlers with the upstream they call, and the in-memory callback  *)
(* store, as they run on the single event loop uvicorn gives the app.      *)
(*                                                                         *)
(* Text whose characters the code looks at (credentials, prompt, model,    *)
(* callback_url: all are stripped and measured) is a sequence of           *)
(* one-character strings.  Text the code only moves or compares (ids,      *)
(* upstream bodies, messages) is a TLA+ string.  An Optional value is a    *)
(* sequence of length 0 (None) or 1.                                       *)
(***************************************************************************)
EXTENDS Integers, Sequences, FiniteSets, TLC

\* ---------------------------------------------------------------- bounds
\* Longest header or query credential drawn in SpecKey.
MaxKeyLen == 2
\* Most whitespace characters put before and after a prompt or a model.
MaxPad == 1
\* Most chunks the upstream emits on one stream.
MaxChunks == 2

\* ------------------------------------------------------- program constants
\* len(prompt) > 500
PromptLimit == 500
\* resp.ok is false from this status on (requests: 400 <= status < 600) ...
ErrorStatusFrom == 400
\* ... up to, and not including, this one.
ErrorStatusUpTo == 600

\* ------------------------------------------------------------------- text
None == <<>>
Some(x) == <<x>>

\* The characters str.strip() removes (those the inputs of the model use).
Whitespace == {" ", "\t", "\n"}

\* str.strip(): the text from its first to its last non-whitespace character.
strip(s) ==
  LET n == Len(s)
      Inked(i) == s[i] \notin Whitespace
  IN  IF \A i \in 1..n : ~Inked(i) THEN <<>>
      ELSE LET first == CHOOSE i \in 1..n : Inked(i) /\ \A j \in 1..(i - 1) : ~Inked(j)
               last == CHOOSE i \in 1..n : Inked(i) /\ \A j \in (i + 1)..n : ~Inked(j)
           IN  SubSeq(s, first, last)

\* (x or ""): None becomes the empty text.
OrEmpty(o) == IF o = None THEN <<>> ELSE o[1]

\* a or b, on texts: the empty text is falsy.
TextOr(a, b) == IF a # <<>> THEN a ELSE b

\* ----------------------------------------------------------- key resolver
MissingKeyDetail == "Missing API key (send in 'x-suno-api-key' header or 'api_key' query param)"

\* What a call either returns or raises as an HTTPException.
Returned(v) == [ok |-> TRUE, value |-> v, status |-> 0, detail |-> <<>>]
Raised(code, parts) == [ok |-> FALSE, value |-> <<>>, status |-> code, detail |-> parts]

\* A slip: the query parameter wins over the header.
resolve_api_key_query_first(header_key, query_key) ==
  LET api_key == TextOr(strip(OrEmpty(query_key)), strip(OrEmpty(header_key)))
  IN  IF api_key = <<>> THEN Raised(400, <<MissingKeyDetail>>) ELSE Returned(api_key)

resolve_api_key(header_key, query_key) ==
  LET api_key == TextOr(strip(OrEmpty(header_key)), strip(OrEmpty(query_key)))
  IN  IF api_key = <<>> THEN Raised(400, <<MissingKeyDetail>>) ELSE Returned(api_key)

\* ------------------------------------------------------------------ state
\* The requests the server holds at once (connections being served).
Reqs == {"r1", "r2"}
\* Who holds the event loop: a request inside a blocking call, or nobody.
Free == "free"

VARIABLES
  pc,              \* per request: where its handling stands
  req,             \* per request: what the client sent
  up,              \* per request: the upstream call and what came of it
  resp,            \* per request: the response given to the client
  calls,           \* per request: upstream calls issued for it
  loop,            \* the request whose handler blocks the event loop, or Free
  CALLBACK_STORE,  \* _CALLBACK_STORE: [keys: insertion order, val: id -> payload]
  acked,           \* what clients were told: acknowledged id -> payload last sent
  header_key,      \* SpecKey: the header value given to _resolve_api_key
  query_key,       \* SpecKey: the query value given to _resolve_api_key
  resolved         \* SpecKey: what _resolve_api_key gave, once called

vars == <<pc, req, up, resp, calls, loop, CALLBACK_STORE, acked,
          header_key, query_key, resolved>>
serverVars == <<pc, req, up, resp, calls, loop, CALLBACK_STORE, acked>>
keyVars == <<header_key, query_key, resolved>>

\* ------------------------------------------------------------------- JSON
\* A JSON value of a generate body (s: characters) or of a callback payload
\* (s: a string): null, a string or a number.
JNull == [t |-> "null", s |-> <<>>, n |-> 0]
JText(s) == [t |-> "str", s |-> s, n |-> 0]
JNum(n) == [t |-> "num", s |-> <<>>, n |-> n]
PNull == [t |-> "null", s |-> "", n |-> 0]
PStr(s) == [t |-> "str", s |-> s, n |-> 0]
PNum(n) == [t |-> "num", s |-> "", n |-> n]

\* A dict: a function on the keys it holds.
EmptyDict == [k \in {} |-> JNull]
Restrict(f, S) == [k \in S |-> f[k]]
\* A key the document does not hold.
Absent == [t |-> "absent", s |-> <<>>, n |-> 0]
PAbsent == [t |-> "absent", s |-> "", n |-> 0]
\* The dict of three keys, those with an absent value left out.
Dict3(k1, v1, k2, v2, k3, v3) ==
  LET f == (k1 :> v1) @@ (k2 :> v2) @@ (k3 :> v3)
  IN  Restrict(f, {k \in DOMAIN f : f[k].t # "absent"})

\* ---------------------------------------------------------------- records
NoBody == [kind |-> "none", fields |-> EmptyDict]
NoPayload == [prompt |-> <<>>, model |-> <<>>, callback_url |-> None]
NoHeaders == [x_api_key |-> <<>>, Authorization |-> <<>>]
NoUp == [kind |-> "none", path |-> "", headers |-> NoHeaders, data |-> NoPayload,
         err |-> "", status |-> 0, text |-> "", body_failed |-> FALSE,
         chunks |-> <<>>]
NoResp == [kind |-> "none", status |-> 0, detail |-> <<>>, body |-> "",
           chunks |-> <<>>, complete |-> FALSE, filename |-> <<>>,
           id |-> "", payload |-> EmptyDict, count |-> 0, items |-> <<>>]
NoReq == [op |-> "none", header |-> None, query |-> None, id |-> None,
          body |-> NoBody, payload |-> EmptyDict]

\* raise HTTPException(status_code, detail): FastAPI answers {"detail": detail}.
HttpError(code, parts) == [NoResp EXCEPT !.kind = "error", !.status = code, !.detail = parts]
\* A required query parameter is missing: FastAPI answers 422 before the handler runs.
ValidationError == [NoResp EXCEPT !.kind = "invalid", !.status = 422]
\* An exception no handler catches: the server answers 500 Internal Server Error.
ServerError == [NoResp EXCEPT !.kind = "crash", !.status = 500]

RelayOps == {"generate", "status", "lyrics", "stream", "download"}
GetOps == {"status", "lyrics", "stream", "download"}

\* --------------------------------------------------------------- upstream
\* _suno_headers: the credential in both schemes.
suno_headers(api_key) ==
  [x_api_key |-> api_key,
   Authorization |-> <<"B", "e", "a", "r", "e", "r", " ">> \o api_key]

\* What the upstream is seen to do: statuses it answers with (success, not
\* modified, client error, server error), bodies it sends, ways the
\* transport fails (requests.RequestException).
UpstreamStatuses == {200, 304, 404, 500}
JsonTexts == {"{\"job\": 1}"}
UpstreamTexts == JsonTexts \cup {"rate limited"}
TransportErrors == {"connection refused", "read timed out"}
Chunks == {<<>>, <<1>>, <<2, 3>>}

\* A slip: only 5xx counts as an upstream error.
ok_below_500(status) == status < 500

\* requests' Response.ok: raise_for_status() raises for 400 <= status < 600.
ok(status) == ~(status >= ErrorStatusFrom /\ status < ErrorStatusUpTo)

\* resp.json(): the document, when the body is one.
IsJson(text) == text \in JsonTexts

\* What requests.get / requests.post give a call that reads the body before
\* it returns: an exception, or a response with its status and text.
CallOutcomes ==
  {[kind |-> "fail", err |-> e, status |-> 0, text |-> ""] : e \in TransportErrors}
  \cup {[kind |-> "response", err |-> "", status |-> s, text |-> t] :
          s \in UpstreamStatuses, t \in UpstreamTexts}

\* ---------------------------------------------------------------- helpers
Respond(r, response) ==
  /\ resp' = [resp EXCEPT ![r] = response]
  /\ pc' = [pc EXCEPT ![r] = "done"]

\* The handler enters requests.get / requests.post: a blocking call made on
\* the event loop's thread, so the loop is held until the call returns.
CallUpstream(r, path, api_key, data) ==
  /\ pc' = [pc EXCEPT ![r] = "calling"]
  /\ up' = [up EXCEPT ![r] = [NoUp EXCEPT !.kind = "pending", !.path = path,
                                          !.headers = suno_headers(api_key),
                                          !.data = data]]
  /\ calls' = [calls EXCEPT ![r] = @ + 1]
  /\ loop' = r

\* A slip: the transport failure is reported as a plain server error.
UpstreamError_as_500(e) == HttpError(500, <<"Upstream error: ", e>>)

\* except requests.RequestException as e: raise HTTPException(502, ...)
UpstreamError(e) == HttpError(502, <<"Upstream error: ", e>>)

\* return JSONResponse(content=resp.json())
JsonResponse(text) ==
  IF IsJson(text) THEN [NoResp EXCEPT !.kind = "json", !.status = 200, !.body = text]
  ELSE ServerError

\* A client sends a request of S on a connection the server is not serving.
Arrive(r, S) ==
  /\ pc[r] = "idle"
  /\ \E q \in S : req' = [req EXCEPT ![r] = q]
  /\ pc' = [pc EXCEPT ![r] = "arrived"]
  /\ up' = [up EXCEPT ![r] = NoUp]
  /\ resp' = [resp EXCEPT ![r] = NoResp]
  /\ calls' = [calls EXCEPT ![r] = 0]
  /\ UNCHANGED <<loop, CALLBACK_STORE, acked, keyVars>>

\* The response has been sent; the connection serves the next request.
Deliver(r) ==
  /\ pc[r] = "done"
  /\ loop = Free
  /\ pc' = [pc EXCEPT ![r] = "idle"]
  /\ req' = [req EXCEPT ![r] = NoReq]
  /\ up' = [up EXCEPT ![r] = NoUp]
  /\ resp' = [resp EXCEPT ![r] = NoResp]
  /\ calls' = [calls EXCEPT ![r] = 0]
  /\ UNCHANGED <<loop, CALLBACK_STORE, acked, keyVars>>

\* ------------------------------------------- status, lyrics (JSON lookups)
\* A GET handler up to its upstream call: the required id (422 when it is
\* missing, before the body of the handler runs), the credential, the call.
GetBegin(r, op) ==
  /\ pc[r] = "arrived"
  /\ req[r].op = op
  /\ loop = Free
  /\ IF req[r].id = None
       THEN Respond(r, ValidationError) /\ UNCHANGED <<up, calls, loop>>
       ELSE LET resolved_key == resolve_api_key(req[r].header, req[r].query)
            IN  IF ~resolved_key.ok
                  THEN /\ Respond(r, HttpError(resolved_key.status, resolved_key.detail))
                       /\ UNCHANGED <<up, calls, loop>>
                  ELSE /\ CallUpstream(r, op, resolved_key.value, NoPayload)
                       /\ UNCHANGED resp
  /\ UNCHANGED <<req, CALLBACK_STORE, acked, keyVars>>

\* The call returns (or raises) and the handler shapes its response.
Shape(op, id, o) ==
  IF o.kind = "fail" THEN UpstreamError(o.err)
  ELSE IF ~ok(o.status) THEN HttpError(o.status, <<o.text>>)
  ELSE IF op = "download"
         THEN [NoResp EXCEPT !.kind = "file", !.status = 200, !.body = o.text,
                             !.filename = <<"suno-", id, ".mp3">>]
         ELSE JsonResponse(o.text)

CallReturn(r, op) ==
  /\ pc[r] = "calling"
  /\ req[r].op = op
  /\ loop = r
  /\ \E o \in CallOutcomes :
       /\ up' = [up EXCEPT ![r] = [@ EXCEPT !.kind = o.kind, !.err = o.err,
                                            !.status = o.status, !.text = o.text]]
       /\ Respond(r, Shape(op, req[r].id[1], o))
  /\ loop' = Free
  /\ UNCHANGED <<req, calls, CALLBACK_STORE, acked, keyVars>>

status(r) == GetBegin(r, "status")
status_return(r) == CallReturn(r, "status")
lyrics(r) == GetBegin(r, "lyrics")
lyrics_return(r) == CallReturn(r, "lyrics")
download(r) == GetBegin(r, "download")
download_return(r) == CallReturn(r, "download")

\* --------------------------------------------------------------- generate
\* dict.get(key, ""): the value, or "" when the key is not there.
Get(d, key) == IF key \in DOMAIN d THEN d[key] ELSE JText(<<>>)

\* (body or {}): a falsy document (null, [], 0, "", false, {}) reads as {}.
\* A truthy document that is no object has no .get.
Crash == [ok |-> FALSE, value |-> NoPayload, status |-> 500, detail |-> <<>>]
Reject(parts) == [ok |-> FALSE, value |-> NoPayload, status |-> 400, detail |-> parts]
Forward(payload) == [ok |-> TRUE, value |-> payload, status |-> 0, detail |-> <<>>]

\* A slip: the limit is checked with >= (a prompt of exactly 500 is turned away).
generate_check_off_by_one(body) ==
  IF body.kind = "malformed" THEN Reject(<<"Invalid JSON body">>)
  ELSE IF body.kind = "nondict" THEN Crash
  ELSE
    LET d == IF body.kind = "dict" THEN body.fields ELSE EmptyDict
        p == Get(d, "prompt")
        m == Get(d, "model")
        c == Get(d, "callback_url")
    IN  IF p.t # "str" \/ m.t # "str" \/ c.t # "str" THEN Crash
        ELSE IF strip(p.s) = <<>> THEN Reject(<<"Prompt is required">>)
        ELSE IF Len(strip(p.s)) >= PromptLimit
               THEN Reject(<<"Prompt must be <= 500 characters">>)
        ELSE IF strip(m.s) = <<>> THEN Reject(<<"Model is required">>)
        ELSE Forward([prompt |-> strip(p.s), model |-> strip(m.s),
                      callback_url |-> IF strip(c.s) # <<>> THEN Some(strip(c.s)) ELSE None])

\* The body of generate from request.json() to the payload: what it raises
\* (400), where it breaks (.get or .strip on what has none: 500), or the
\* payload it forwards.
generate_check(body) ==
  IF body.kind = "malformed" THEN Reject(<<"Invalid JSON body">>)
  ELSE IF body.kind = "nondict" THEN Crash
  ELSE
    LET d == IF body.kind = "dict" THEN body.fields ELSE EmptyDict
        p == Get(d, "prompt")
        m == Get(d, "model")
        c == Get(d, "callback_url")
    IN  IF p.t # "str" \/ m.t # "str" \/ c.t # "str" THEN Crash
        ELSE IF strip(p.s) = <<>> THEN Reject(<<"Prompt is required">>)
        ELSE IF Len(strip(p.s)) > PromptLimit
               THEN Reject(<<"Prompt must be <= 500 characters">>)
        ELSE IF strip(m.s) = <<>> THEN Reject(<<"Model is required">>)
        ELSE Forward([prompt |-> strip(p.s), model |-> strip(m.s),
                      callback_url |-> IF strip(c.s) # <<>> THEN Some(strip(c.s)) ELSE None])

\* generate up to "await request.json()": the credential; then it waits for
\* the body, and the event loop serves others meanwhile.
generate(r) ==
  /\ pc[r] = "arrived"
  /\ req[r].op = "generate"
  /\ loop = Free
  /\ LET resolved_key == resolve_api_key(req[r].header, req[r].query)
     IN  IF ~resolved_key.ok
           THEN Respond(r, HttpError(resolved_key.status, resolved_key.detail))
           ELSE pc' = [pc EXCEPT ![r] = "reading"] /\ UNCHANGED resp
  /\ UNCHANGED <<req, up, calls, loop, CALLBACK_STORE, acked, keyVars>>

\* generate from the body on: validation, then the upstream call.
generate_body(r) ==
  /\ pc[r] = "reading"
  /\ loop = Free
  /\ LET checked == generate_check(req[r].body)
         resolved_key == resolve_api_key(req[r].header, req[r].query)
     IN  IF checked.ok
           THEN CallUpstream(r, "generate", resolved_key.value, checked.value)
                /\ UNCHANGED resp
           ELSE /\ Respond(r, IF checked.status = 500 THEN ServerError
                              ELSE HttpError(checked.status, checked.detail))
                /\ UNCHANGED <<up, calls, loop>>
  /\ UNCHANGED <<req, CALLBACK_STORE, acked, keyVars>>

generate_return(r) == CallReturn(r, "generate")

\* ----------------------------------------------------------------- stream
stream(r) == GetBegin(r, "stream")

\* requests.get(stream=True) returns once the status line and headers are
\* in; the body is read later: by upstream.text for an error, by
\* iter_content for the audio.  Reading it can fail too.
stream_return(r) ==
  /\ pc[r] = "calling"
  /\ req[r].op = "stream"
  /\ loop = r
  /\ \/ \E e \in TransportErrors :
          /\ up' = [up EXCEPT ![r] = [@ EXCEPT !.kind = "fail", !.err = e]]
          /\ Respond(r, UpstreamError(e))
     \/ \E s \in UpstreamStatuses, t \in UpstreamTexts :
          /\ ~ok(s)
          /\ up' = [up EXCEPT ![r] = [@ EXCEPT !.kind = "response", !.status = s, !.text = t]]
          /\ Respond(r, HttpError(s, <<t>>))
     \/ \E s \in UpstreamStatuses, e \in TransportErrors :
          /\ ~ok(s)
          /\ up' = [up EXCEPT ![r] = [@ EXCEPT !.kind = "response", !.status = s,
                                               !.err = e, !.body_failed = TRUE]]
          /\ Respond(r, ServerError)
     \/ \E s \in UpstreamStatuses :
          /\ ok(s)
          /\ up' = [up EXCEPT ![r] = [@ EXCEPT !.kind = "response", !.status = s]]
          /\ resp' = [resp EXCEPT ![r] = [NoResp EXCEPT !.kind = "stream", !.status = 200]]
          /\ pc' = [pc EXCEPT ![r] = "streaming"]
  /\ loop' = Free
  /\ UNCHANGED <<req, calls, CALLBACK_STORE, acked, keyVars>>

\* A slip: the test looks at the chunk's length and keeps one-byte chunks only.
yield_chunk_short_only(emitted, chunk) ==
  IF Len(chunk) = 1 THEN Append(emitted, chunk) ELSE emitted

\* for chunk in upstream.iter_content(...): if chunk: yield chunk
yield_chunk(emitted, chunk) ==
  IF chunk # <<>> THEN Append(emitted, chunk) ELSE emitted

\* One turn of the generator behind the StreamingResponse: the next chunk
\* of the upstream, its end, or its failure.  The chunk is sent by the
\* event loop, so nothing is sent while the loop is held.
iter_stream(r) ==
  /\ pc[r] = "streaming"
  /\ loop = Free
  /\ \/ \E chunk \in Chunks :
          /\ Len(up[r].chunks) < MaxChunks
          /\ up' = [up EXCEPT ![r].chunks = Append(@, chunk)]
          /\ resp' = [resp EXCEPT ![r].chunks = yield_chunk(@, chunk)]
          /\ UNCHANGED pc
     \/ /\ resp' = [resp EXCEPT ![r].complete = TRUE]
        /\ pc' = [pc EXCEPT ![r] = "done"]
        /\ UNCHANGED up
     \/ \E e \in TransportErrors :
          /\ up' = [up EXCEPT ![r].err = e, ![r].body_failed = TRUE]
          /\ pc' = [pc EXCEPT ![r] = "done"]
          /\ UNCHANGED resp
  /\ UNCHANGED <<req, calls, loop, CALLBACK_STORE, acked, keyVars>>

\* ---------------------------------------------------------- callback store
\* payload.get(key): the value, or None.
PGet(payload, key) == IF key \in DOMAIN payload THEN payload[key] ELSE PNull

\* Python's truth of a JSON value: None, "" and 0 are falsy.
Truthy(v) == (v.t = "str" /\ v.s # "") \/ (v.t = "num" /\ v.n # 0)
PyOr(a, b) == IF Truthy(a) THEN a ELSE b

\* str(v)
PyStr(v) == IF v.t = "str" THEN v.s ELSE IF v.t = "num" THEN ToString(v.n) ELSE "None"

\* A slip: track_id is looked at before id.
resolve_track_id_track_first(payload) ==
  PyStr(PyOr(PyOr(PyOr(PGet(payload, "track_id"), PGet(payload, "id")),
                  PGet(payload, "job_id")),
             PStr("unknown")))

\* str(payload.get("id") or payload.get("track_id") or payload.get("job_id") or "unknown")
resolve_track_id(payload) ==
  PyStr(PyOr(PyOr(PyOr(PGet(payload, "id"), PGet(payload, "track_id")),
                  PGet(payload, "job_id")),
             PStr("unknown")))

\* A slip: the store is rebuilt around the new entry, forgetting the others.
store_set_forgetful(store, key, payload) ==
  [keys |-> <<key>>, val |-> [k \in {key} |-> payload]]

\* _CALLBACK_STORE[key] = payload: a new key goes last, a known key keeps its place.
store_set(store, key, payload) ==
  [keys |-> IF key \in DOMAIN store.val THEN store.keys ELSE Append(store.keys, key),
   val |-> [k \in DOMAIN store.val \cup {key} |-> IF k = key THEN payload ELSE store.val[k]]]

\* POST /callback
callback_handler(r) ==
  /\ pc[r] = "arrived"
  /\ req[r].op = "callback"
  /\ loop = Free
  /\ LET track_id == resolve_track_id(req[r].payload)
         answer == [NoResp EXCEPT !.kind = "ack", !.status = 200, !.id = track_id]
     IN  /\ CALLBACK_STORE' = store_set(CALLBACK_STORE, track_id, req[r].payload)
         /\ Respond(r, answer)
         /\ acked' = [k \in DOMAIN acked \cup {answer.id} |->
                        IF k = answer.id THEN req[r].payload ELSE acked[k]]
  /\ UNCHANGED <<req, up, calls, loop, keyVars>>

\* GET /callback/store
callback_store_get(r) ==
  /\ pc[r] = "arrived"
  /\ req[r].op = "callback_store"
  /\ loop = Free
  /\ LET id == req[r].id
     IN  IF id # None /\ id # Some("")
           THEN IF id[1] \in DOMAIN CALLBACK_STORE.val
                   /\ DOMAIN CALLBACK_STORE.val[id[1]] # {}
                  THEN Respond(r, [NoResp EXCEPT !.kind = "payload", !.status = 200,
                                                 !.payload = CALLBACK_STORE.val[id[1]]])
                  ELSE Respond(r, [NoResp EXCEPT !.kind = "not_found", !.status = 200])
           ELSE Respond(r, [NoResp EXCEPT !.kind = "listing", !.status = 200,
                                          !.count = Cardinality(DOMAIN CALLBACK_STORE.val),
                                          !.items = CALLBACK_STORE.keys])
  /\ UNCHANGED <<req, up, calls, loop, CALLBACK_STORE, acked, keyVars>>

\* ------------------------------------------------------------ key resolver
NotCalled == [ok |-> FALSE, value |-> <<>>, status |-> 0, detail |-> <<>>]

\* A handler's first statement: resolved_key = _resolve_api_key(header, query)
ResolveKey ==
  /\ resolved = NotCalled
  /\ resolved' = resolve_api_key(header_key, query_key)
  /\ UNCHANGED <<header_key, query_key, serverVars>>

\* ------------------------------------------------------------------ inputs
Req(op, h, q, id, body, payload) ==
  [op |-> op, header |-> h, query |-> q, id |-> id, body |-> body, payload |-> payload]

Pad(n) == [i \in 1..n |-> " "]
Fill(n) == [i \in 1..n |-> "a"]

\* SpecKey: every text of up to MaxKeyLen characters, and None.
KeyChars == {" ", "a", "b"}
KeyTexts == UNION {[1..n -> KeyChars] : n \in 0..MaxKeyLen}
OptKeys == {None} \cup {Some(t) : t \in KeyTexts}

\* The server: <<header, query>> with no credential, a blank header beside
\* a query credential, a padded header credential.
Credentials ==
  {<<None, None>>, <<Some(<<" ">>), Some(<<"q">>)>>, <<Some(<<"k", " ">>), None>>}
Body(kind, fields) == [kind |-> kind, fields |-> fields]
Bodies ==
  {Body("malformed", EmptyDict), Body("nondict", EmptyDict),
   Body("dict", Dict3("prompt", JText(<<"p">>), "model", JText(<<"m">>), "callback_url", Absent)),
   Body("dict", Dict3("prompt", JNum(7), "model", JText(<<"m">>), "callback_url", Absent)),
   Body("dict", Dict3("prompt", JText(<<"p">>), "model", Absent, "callback_url", Absent))}
RelayRequests ==
  {Req("generate", c[1], c[2], None, b, EmptyDict) : c \in Credentials, b \in Bodies}
  \cup {Req(op, c[1], c[2], i, NoBody, EmptyDict) :
          op \in GetOps, c \in Credentials, i \in {None, Some("x")}}

\* SpecGenerate: prompts around the limit, padded or not; models; callback urls.
PromptLens == {0, 1, PromptLimit - 1, PromptLimit, PromptLimit + 1}
Prompts ==
  {Absent, JNull, JNum(7)}
  \cup {JText(Pad(l) \o Fill(n) \o Pad(t)) : l \in 0..MaxPad, t \in 0..MaxPad, n \in PromptLens}
Models ==
  {Absent, JNum(7)}
  \cup {JText(Pad(l) \o m \o Pad(t)) : l \in 0..MaxPad, t \in 0..MaxPad, m \in {<<>>, <<"m">>}}
CallbackUrls == {Absent, JNum(7), JText(<<" ">>), JText(<<"u">>)}
GenerateBodies ==
  {Body("malformed", EmptyDict), Body("nondict", EmptyDict), Body("falsy", EmptyDict)}
  \cup {Body("dict", Dict3("prompt", p, "model", m, "callback_url", c)) :
          p \in Prompts, m \in Models, c \in CallbackUrls}
GenerateRequests ==
  {Req("generate", Some(<<"k">>), None, None, b, EmptyDict) : b \in GenerateBodies}

\* SpecCallback: each identifier field absent, null, falsy or usable.
IdValues == {PAbsent, PNull, PStr(""), PStr("a"), PNum(0), PNum(7)}
CallbackRequests ==
  {Req("callback", None, None, None, NoBody, Dict3("id", i, "track_id", t, "job_id", j)) :
     i \in IdValues, t \in IdValues, j \in IdValues}

\* SpecStore: payloads that share identifiers, the empty payload among them.
StorePayloads ==
  {Dict3("id", i, "track_id", t, "foo", f) :
     i \in {PAbsent, PStr("abc")}, t \in {PAbsent, PStr("t1")}, f \in {PAbsent, PNum(1)}}
StoreRequests ==
  {Req("callback", None, None, None, NoBody, p) : p \in StorePayloads}
  \cup {Req("callback_store", None, None, i, NoBody, EmptyDict) :
          i \in {None, Some(""), Some("abc"), Some("t1"), Some("unknown")}}

\* ---------------------------------------------------------- specifications
InitServer ==
  /\ pc = [r \in Reqs |-> "idle"]
  /\ req = [r \in Reqs |-> NoReq]
  /\ up = [r \in Reqs |-> NoUp]
  /\ resp = [r \in Reqs |-> NoResp]
  /\ calls = [r \in Reqs |-> 0]
  /\ loop = Free
  /\ CALLBACK_STORE = [keys |-> <<>>, val |-> [k \in {} |-> EmptyDict]]
  /\ acked = [k \in {} |-> EmptyDict]

InitNoKey ==
  /\ header_key = None
  /\ query_key = None
  /\ resolved = NotCalled

\* The relay: clients, the five handlers, the upstream, one event loop.
Init == InitServer /\ InitNoKey
Next ==
  \E r \in Reqs :
    \/ Arrive(r, RelayRequests)
    \/ generate(r)
    \/ generate_body(r)
    \/ generate_return(r)
    \/ status(r)
    \/ status_return(r)
    \/ lyrics(r)
    \/ lyrics_return(r)
    \/ stream(r)
    \/ stream_return(r)
    \/ iter_stream(r)
    \/ download(r)
    \/ download_return(r)
    \/ Deliver(r)
Spec == Init /\ [][Next]_vars

\* The key resolver on every pair of inputs.
InitKey ==
  /\ InitServer
  /\ header_key \in OptKeys
  /\ query_key \in OptKeys
  /\ resolved = NotCalled
NextKey == ResolveKey
SpecKey == InitKey /\ [][NextKey]_vars

\* generate alone, one client, on the wide set of bodies.
FirstReq == "r1"
NextGenerate ==
  \/ Arrive(FirstReq, GenerateRequests)
  \/ generate(FirstReq)
  \/ generate_body(FirstReq)
  \/ generate_return(FirstReq)
  \/ Deliver(FirstReq)
SpecGenerate == Init /\ [][NextGenerate]_vars

\* One Record on the empty store, on the wide set of payloads.
NextCallback ==
  \/ Arrive(FirstReq, CallbackRequests)
  \/ callback_handler(FirstReq)
SpecCallback == Init /\ [][NextCallback]_vars

\* The callback store under any interleaving of Records and Lookups.
NextStore ==
  \E r \in Reqs :
    \/ Arrive(r, StoreRequests)
    \/ callback_handler(r)
    \/ callback_store_get(r)
    \/ Deliver(r)
SpecStore == Init /\ [][NextStore]_vars

\* ================================================================== claims
\* What the claims speak of, said without the operators of the code.
Blank(o) == o = None \/ \A i \in 1..Len(o[1]) : o[1][i] \in Whitespace

\* v is s without the whitespace around it, and is not empty.
IsTrimOf(v, s) ==
  /\ v # <<>>
  /\ v[1] \notin Whitespace
  /\ v[Len(v)] \notin Whitespace
  /\ \E a \in 0..Len(s) :
       /\ a + Len(v) <= Len(s)
       /\ SubSeq(s, a + 1, a + Len(v)) = v
       /\ \A i \in 1..a : s[i] \in Whitespace
       /\ \A i \in (a + Len(v) + 1)..Len(s) : s[i] \in Whitespace

\* C1: _resolve_api_key gives the trimmed header value when the header is
\* present and not blank, otherwise the trimmed query value when that is not
\* blank, never an empty credential, and raises the 400 missing-credential
\* error exactly when both are absent or blank.
C1_KeyResolution ==
  resolved # NotCalled =>
    /\ ~Blank(header_key) =>
         resolved.ok /\ IsTrimOf(resolved.value, header_key[1])
    /\ Blank(header_key) /\ ~Blank(query_key) =>
         resolved.ok /\ IsTrimOf(resolved.value, query_key[1])
    /\ (Blank(header_key) /\ Blank(query_key))
         <=> (~resolved.ok /\ resolved.status = 400 /\ resolved.detail = <<MissingKeyDetail>>)
    /\ resolved.ok => resolved.value # <<>>

\* Both given and not blank, padded, and different: the header's won.
C1_Witness ==
  /\ header_key = Some(<<" ", "a">>)
  /\ query_key = Some(<<"b", " ">>)
  /\ resolved = Returned(<<"a">>)

\* A request in the hands of a relay handler, and one that is answered.
Relayed(r) == req[r].op \in RelayOps
Answered(r) == pc[r] = "done" /\ Relayed(r)

\* The client's input errors: no credential, no id, a body that is no JSON
\* or no object, a prompt or model that is missing, no string, empty or
\* (the prompt) longer than the limit.
BadText(d, key) == key \notin DOMAIN d \/ d[key].t # "str" \/ Len(d[key].s) = 0
ClientInputError(q) ==
  \/ Blank(q.header) /\ Blank(q.query)
  \/ q.op \in GetOps /\ q.id = None
  \/ /\ q.op = "generate"
     /\ \/ q.body.kind # "dict"
        \/ BadText(q.body.fields, "prompt")
        \/ Len(q.body.fields["prompt"].s) > PromptLimit
        \/ BadText(q.body.fields, "model")

\* C2: on every relay operation a request with a client input error is
\* answered 400, and no upstream call is ever issued for it.
C2_InputErrorIs400 ==
  \A r \in Reqs :
    Relayed(r) /\ ClientInputError(req[r]) =>
      /\ calls[r] = 0
      /\ pc[r] = "done" => resp[r].status = 400

\* The upstream answered with this status and its body was read.
UpstreamSaid(r, statuses) ==
  /\ Answered(r)
  /\ up[r].kind = "response"
  /\ ~up[r].body_failed
  /\ up[r].status \in statuses
PropagatedAsIs(r) ==
  /\ resp[r].status = up[r].status
  /\ resp[r].detail = <<up[r].text>>
  /\ calls[r] = 1

Is502(r) ==
  /\ resp[r].kind = "error"
  /\ resp[r].status = 502
  /\ Len(resp[r].detail) = 2
  /\ resp[r].detail[1] = "Upstream error: "
  /\ resp[r].detail[2] = up[r].err

LookupStep(r) ==
  pc[r] = "arrived" /\ req[r].op = "callback_store" /\ pc'[r] = "done"
RecordStep(r) ==
  pc[r] = "arrived" /\ req[r].op = "callback" /\ pc'[r] = "done"
Given(id) == id # None /\ id # Some("")
Range(q) == {q[i] : i \in 1..Len(q)}

\* C5: a Lookup with identifier k answers exactly the payload of the latest
\* Record acknowledged under k, whatever was recorded under other
\* identifiers, and answers not_found only when no Record was.
C5_LookupReturnsLatest ==
  [][\A r \in Reqs :
       LookupStep(r) /\ Given(req[r].id) =>
         IF req[r].id[1] \in DOMAIN acked
           THEN resp'[r].kind = "payload" /\ resp'[r].payload = acked[req[r].id[1]]
           ELSE resp'[r].kind = "not_found"]_vars

\* The identifier of a payload as the claim has it: the string of the first
\* of id, track_id, job_id that is present and not null, else "unknown".
PresentNonNull(payload, key) == key \in DOMAIN payload /\ payload[key] # PNull
FirstNonNullId(payload) ==
  IF PresentNonNull(payload, "id") THEN PyStr(payload["id"])
  ELSE IF PresentNonNull(payload, "track_id") THEN PyStr(payload["track_id"])
  ELSE IF PresentNonNull(payload, "job_id") THEN PyStr(payload["job_id"])
  ELSE "unknown"
\* The same with "present and truthy": not null, not "", not 0.
PresentTruthy(payload, key) ==
  key \in DOMAIN payload /\ payload[key] \notin {PNull, PStr(""), PNum(0)}
FirstTruthyId(payload) ==
  IF PresentTruthy(payload, "id") THEN PyStr(payload["id"])
  ELSE IF PresentTruthy(payload, "track_id") THEN PyStr(payload["track_id"])
  ELSE IF PresentTruthy(payload, "job_id") THEN PyStr(payload["job_id"])
  ELSE "unknown"
RecordedUnder(r, id) ==
  /\ resp[r].kind = "ack"
  /\ resp[r].id = id
  /\ id \in DOMAIN CALLBACK_STORE.val
  /\ CALLBACK_STORE.val[id] = req[r].payload

\* C6 (as claimed): Record files the payload under the string of the first of
\* id, track_id, job_id that is present and not null, under "unknown" when
\* none is, and acknowledges that identifier.
C6_Original_FirstNonNull ==
  \A r \in Reqs :
    pc[r] = "done" /\ req[r].op = "callback" =>
      RecordedUnder(r, FirstNonNullId(req[r].payload))

\* C6 (amended): Record files the payload under the string of the first of
\* id, track_id, job_id that is present and truthy (not null, not "", not 0),
\* under "unknown" when none is, and acknowledges that identifier.
C6_FirstTruthy ==
  \A r \in Reqs :
    pc[r] = "done" /\ req[r].op = "callback" =>
      RecordedUnder(r, FirstTruthyId(req[r].payload))

\* An id of 0 is passed over for the track_id; an empty id alone is unknown.
C6_Witness ==
  \E r \in Reqs :
    /\ pc[r] = "done"
    /\ req[r].payload = Dict3("id", PNum(0), "track_id", PStr("a"), "job_id", PNum(7))
    /\ resp[r].id = "a"
    /\ CALLBACK_STORE.keys = <<"a">>

\* C7: a Lookup without identifier answers the number of distinct
\* identifiers acknowledged so far and exactly those identifiers, each once;
\* a Record under a new identifier adds one to both, a Record under a
\* known identifier changes neither.
C7_ListingCountsIdentifiers ==
  [][\A r \in Reqs :
       /\ LookupStep(r) /\ ~Given(req[r].id) =>
            /\ resp'[r].kind = "listing"
            /\ resp'[r].count = Cardinality(DOMAIN acked)
            /\ Len(resp'[r].items) = resp'[r].count
            /\ Range(resp'[r].items) = DOMAIN acked
       /\ RecordStep(r) =>
            LET fresh == resp'[r].id \notin DOMAIN acked
            IN  /\ Cardinality(DOMAIN CALLBACK_STORE'.val)
                     = Cardinality(DOMAIN CALLBACK_STORE.val) + (IF fresh THEN 1 ELSE 0)
                /\ CALLBACK_STORE'.keys
                     = IF fresh THEN Append(CALLBACK_STORE.keys, resp'[r].id)
                       ELSE CALLBACK_STORE.keys]_vars

\* Three Records, two of them under one identifier, then the listing.
C7_Witness ==
  \E r \in Reqs :
    /\ pc[r] = "done"
    /\ resp[r].kind = "listing"
    /\ resp[r].count = 2
    /\ resp[r].items = <<"t1", "abc">>
    /\ acked["abc"] = Dict3("id", PStr("abc"), "track_id", PStr("t1"), "foo", PNum(1))

\* The text of a field as the client wrote it ("" when it is not there).
Raw(q, key) == Get(q.body.fields, key).s
\* A JSON object whose prompt, model and callback_url are strings where given.
TextBody(q) ==
  /\ q.body.kind = "dict"
  /\ \A key \in DOMAIN q.body.fields : q.body.fields[key].t = "str"
Forwarded(r) == calls[r] = 1 /\ up[r].path = "generate"
Decided(r) == pc[r] \in {"calling", "done"} /\ req[r].op = "generate"

\* C8 (as claimed): generate with a credential is forwarded exactly when the
\* prompt is not empty and at most 500 characters and the model is not
\* empty; otherwise it is answered 400.
C8_Original_RawLengths ==
  \A r \in Reqs :
    Decided(r) /\ ~Blank(req[r].header) /\ TextBody(req[r]) =>
      /\ Forwarded(r) <=> /\ Len(Raw(req[r], "prompt")) \in 1..PromptLimit
                          /\ Len(Raw(req[r], "model")) >= 1
      /\ ~Forwarded(r) => resp[r].status = 400

\* C8 (amended): generate with a credential and a JSON object whose prompt,
\* model and callback_url are strings where given is forwarded exactly when
\* the prompt with the whitespace around it removed is not empty and at most
\* 500 characters and the model so trimmed is not empty; otherwise it is
\* answered 400 and nothing is sent upstream.  What is forwarded is the
\* trimmed prompt and model.
C8_TrimmedLengths ==
  \A r \in Reqs :
    Decided(r) /\ ~Blank(req[r].header) /\ TextBody(req[r]) =>
      /\ Forwarded(r) <=> /\ Len(strip(Raw(req[r], "prompt"))) \in 1..PromptLimit
                          /\ Len(strip(Raw(req[r], "model"))) >= 1
      /\ Forwarded(r) => /\ up[r].data.prompt = strip(Raw(req[r], "prompt"))
                         /\ up[r].data.model = strip(Raw(req[r], "model"))
      /\ ~Forwarded(r) => calls[r] = 0 /\ resp[r].status = 400

\* A prompt of 501 characters, the last a space, goes upstream as 500.
C8_Witness ==
  \E r \in Reqs :
    /\ Decided(r)
    /\ Raw(req[r], "prompt") = Fill(PromptLimit) \o Pad(1)
    /\ Forwarded(r)
    /\ Len(up[r].data.prompt) = PromptLimit

\* The bytes of a sequence of chunks, in order.
RECURSIVE Flatten(_)
Flatten(chunks) == IF chunks = <<>> THEN <<>> ELSE Head(chunks) \o Flatten(Tail(chunks))

\* C9: on a stream the upstream answers successfully, the chunks sent to the
\* client, put end to end, are the bytes received from the upstream so far:
\* when the stream ends, all N of them, none dropped, doubled or moved.
C9_StreamKeepsBytes ==
  \A r \in Reqs :
    req[r].op = "stream" /\ resp[r].kind = "stream" =>
      /\ Flatten(resp[r].chunks) = Flatten(up[r].chunks)
      /\ Len(resp[r].chunks) <= Len(up[r].chunks)

\* Three bytes in two chunks, received and sent in that order, to the end.
C9_Witness ==
  \E r \in Reqs :
    /\ pc[r] = "done"
    /\ resp[r].complete
    /\ up[r].chunks = << <<2, 3>>, <<1>> >>
    /\ Flatten(resp[r].chunks) = <<2, 3, 1>>

\* A handler can start on a request that has arrived.
Begin(q) == generate(q) \/ status(q) \/ lyrics(q) \/ stream(q) \/ download(q)

\* C10: while one relay handler is inside its upstream call, the server can
\* still take up another request that has arrived.
C10_CallDoesNotBlockOthers ==
  \A r \in Reqs, q \in Reqs :
    pc[r] = "calling" /\ pc[q] = "arrived" => ENABLED Begin(q)

====
